---------------------------- MODULE Spec2Model ----------------------------
(***************************************************************************)
(* A model of the sarc crate: the SARC archive writer (src/src/writer.rs), *)
(* the reader (src/src/parser.rs) and the name hash (src/src/lib.rs).      *)
(*                                                                         *)
(* Bytes are naturals 0..255, a byte buffer is a sequence of bytes.        *)
(* A u32 that may exceed 2^31 - 1 (a name hash, a field decoded from an    *)
(* untrusted buffer) is kept as the pair <<high 16 bits, low 16 bits>>.    *)
(* A text (Rust String) is the sequence of its code points.                *)
(* An Option is a sequence of length 0 (None) or 1 (Some).                 *)
(***************************************************************************)
EXTENDS Integers, Sequences, FiniteSets, TLC

VARIABLES byte_order, files, buf, wstatus, result, hash_in, hash_out

vars == <<byte_order, files, buf, wstatus, result, hash_in, hash_out>>

(***************************************************************************)
(* Bounds of the model.                                                    *)
(***************************************************************************)
MaxFiles == 2
MaxNodes == 2
MaxHashLen == 3

(***************************************************************************)
(* Generic helpers.                                                        *)
(***************************************************************************)
None == <<>>

Some(x) == <<x>>

Zeros(n) == [i \in 1..n |-> 0]

RECURSIVE Flatten(_)
Flatten(ss) == IF ss = <<>> THEN <<>> ELSE Head(ss) \o Flatten(Tail(ss))

W16 == 65536

(***************************************************************************)
(* u32 arithmetic on <<high, low>> pairs.                                  *)
(***************************************************************************)
ToU32(n) == <<n \div W16, n % W16>>

U32Lt(a, b) == a[1] < b[1] \/ (a[1] = b[1] /\ a[2] < b[2])

U32Leq(a, b) == a = b \/ U32Lt(a, b)

\* u32::wrapping_mul(a, k) for a small k (k * 65535 fits the model's integers)
WrappingMul(a, k) ==
    LET lo == a[2] * k
    IN  <<(a[1] * k + (lo \div W16)) % W16, lo % W16>>

\* a + c for a code point c: the sum modulo 2^32 and whether it left the u32 range
AddCarry(a, c) ==
    LET lo == a[2] + (c % W16)
        hi == a[1] + (c \div W16) + (lo \div W16)
    IN  [sum |-> <<hi % W16, lo % W16>>, overflow |-> hi >= W16]

\* the value of a u32 known to be below 2^30
U32Val(a) == a[1] * W16 + a[2]

(***************************************************************************)
(* Integers to bytes and back, in a byte order ("Big" or "Little").        *)
(***************************************************************************)
BeU16(v) == <<v \div 256, v % 256>>

U16Bytes(order, v) ==
    IF order = "Big" THEN BeU16(v) ELSE <<v % 256, v \div 256>>

U32PairBytes(order, a) ==
    IF order = "Big" THEN BeU16(a[1]) \o BeU16(a[2])
    ELSE <<a[2] % 256, a[2] \div 256, a[1] % 256, a[1] \div 256>>

U32Bytes(order, n) == U32PairBytes(order, ToU32(n))

Ascii(str) ==
    CASE str = "SARC" -> <<83, 65, 82, 67>>
      [] str = "SFAT" -> <<83, 70, 65, 84>>
      [] str = "SFNT" -> <<83, 70, 78, 84>>
      [] str = "Yaz0" -> <<89, 97, 122, 48>>

(***************************************************************************)
(* UTF-8: String::as_bytes and std::str::from_utf8.                        *)
(***************************************************************************)
Utf8Char(cp) ==
    IF cp < 128 THEN <<cp>>
    ELSE IF cp < 2048 THEN <<192 + (cp \div 64), 128 + (cp % 64)>>
    ELSE IF cp < 65536 THEN
        <<224 + (cp \div 4096), 128 + ((cp \div 64) % 64), 128 + (cp % 64)>>
    ELSE <<240 + (cp \div 262144), 128 + ((cp \div 4096) % 64),
           128 + ((cp \div 64) % 64), 128 + (cp % 64)>>

RECURSIVE Utf8Encode(_)
Utf8Encode(s) == IF s = <<>> THEN <<>> ELSE Utf8Char(Head(s)) \o Utf8Encode(Tail(s))

Cont(b) == b >= 128 /\ b <= 191

\* from_utf8(b): Some(code points) for well-formed UTF-8, None otherwise
RECURSIVE Utf8Decode(_)
Utf8Decode(b) ==
    IF b = <<>> THEN Some(<<>>)
    ELSE
      LET b1 == b[1]
          n  == Len(b)
          step(k, cp) ==
              LET rest == Utf8Decode(SubSeq(b, k + 1, n))
              IN  IF rest = None THEN None ELSE Some(<<cp>> \o rest[1])
      IN  IF b1 < 128 THEN step(1, b1)
          ELSE IF b1 >= 194 /\ b1 <= 223 THEN
              IF n >= 2 /\ Cont(b[2])
              THEN step(2, (b1 - 192) * 64 + (b[2] - 128))
              ELSE None
          ELSE IF b1 >= 224 /\ b1 <= 239 THEN
              IF n >= 3 /\ Cont(b[2]) /\ Cont(b[3])
                 /\ (b1 = 224 => b[2] >= 160)
                 /\ (b1 = 237 => b[2] <= 159)
              THEN step(3, (b1 - 224) * 4096 + (b[2] - 128) * 64 + (b[3] - 128))
              ELSE None
          ELSE IF b1 >= 240 /\ b1 <= 244 THEN
              IF n >= 4 /\ Cont(b[2]) /\ Cont(b[3]) /\ Cont(b[4])
                 /\ (b1 = 240 => b[2] >= 144)
                 /\ (b1 = 244 => b[2] <= 143)
              THEN step(4, (b1 - 240) * 262144 + (b[2] - 128) * 4096
                           + (b[3] - 128) * 64 + (b[4] - 128))
              ELSE None
          ELSE None

(***************************************************************************)
(* lib.rs: the name hash.                                                  *)
(***************************************************************************)
KEY == 101

\* one step of the fold: hash.wrapping_mul(KEY) + (c as u32)
HashStep(hash, c) == AddCarry(WrappingMul(hash, KEY), c)

\* the value sfat_hash returns when the `+` wraps (overflow checks off)
RECURSIVE HashFold(_, _)
HashFold(hash, s) ==
    IF s = <<>> THEN hash ELSE HashFold(HashStep(hash, Head(s)).sum, Tail(s))

sfat_hash(string) == HashFold(<<0, 0>>, string)

\* whether some `+` of the fold leaves the u32 range: with overflow checks on
\* (the debug profile) the call panics there
RECURSIVE FoldOverflows(_, _)
FoldOverflows(hash, s) ==
    IF s = <<>> THEN FALSE
    ELSE LET st == HashStep(hash, Head(s))
         IN  st.overflow \/ FoldOverflows(st.sum, Tail(s))

sfat_hash_overflows(string) == FoldOverflows(<<0, 0>>, string)

\* the outcomes of sfat_hash(string) over the builds of the crate
sfat_hash_outcomes(string) ==
    {[tag |-> "Ok", hash |-> sfat_hash(string)]}
    \cup (IF sfat_hash_overflows(string)
          THEN {[tag |-> "Panic", hash |-> <<0, 0>>]} ELSE {})

(***************************************************************************)
(* Collections of the standard library, as the writer uses them.           *)
(***************************************************************************)
\* sort_by_key with a sort that is not stable: an element goes before the
\* elements of equal key already placed
RECURSIVE sort_by_key_unstable(_)
sort_by_key_unstable(s) ==
    IF s = <<>> THEN <<>>
    ELSE LET n      == Len(s)
             sorted == sort_by_key_unstable(SubSeq(s, 1, n - 1))
             e      == s[n]
             k      == Cardinality({i \in 1..(n - 1) : U32Lt(sorted[i].key, e.key)})
         IN  SubSeq(sorted, 1, k) \o <<e>> \o SubSeq(sorted, k + 1, n - 1)

\* slice::sort_by_key on records with a u32 `key`: stable, ascending
RECURSIVE sort_by_key(_)
sort_by_key(s) ==
    IF s = <<>> THEN <<>>
    ELSE LET n      == Len(s)
             sorted == sort_by_key(SubSeq(s, 1, n - 1))
             e      == s[n]
             k      == Cardinality({i \in 1..(n - 1) : U32Leq(sorted[i].key, e.key)})
         IN  SubSeq(sorted, 1, k) \o <<e>> \o SubSeq(sorted, k + 1, n - 1)

\* HashMap::get on the map collected from a sequence of [key, val] pairs:
\* a later pair replaces an earlier one with the same key
MapGet(pairs, k) ==
    LET hit == {i \in 1..Len(pairs) : pairs[i].key = k}
    IN  IF hit = {} THEN None
        ELSE Some(pairs[CHOOSE i \in hit : \A j \in hit : j <= i].val)

(***************************************************************************)
(* writer.rs: layout constants.                                            *)
(***************************************************************************)
SARC_HEADER_SIZE == 20
BOM == 65279
SFAT_HEADER_SIZE == 12
SFAT_ENTRY_SIZE == 16
HASH_KEY == 101
SFNT_HEADER_SIZE == 8
HAS_NAME == 16777216
ALIGN == 8192

\* AlignUp with the mask 0xfff
AlignUp_0xfff(n) == ((n + 4095) \div 4096) * 4096

\* (n + 0x1fff) & !0x1fff
AlignUp(n) == ((n + (ALIGN - 1)) \div ALIGN) * ALIGN

\* the hash an entry is filed under: name.map(sfat_hash).unwrap_or(0)
NameHash(name) == IF name = None THEN <<0, 0>> ELSE sfat_hash(name[1])

(***************************************************************************)
(* writer.rs: the serialized records.                                      *)
(***************************************************************************)
\* SarcString: the text, a zero byte, zero padding up to a multiple of 4
SarcStringBytes(string) ==
    LET raw == Utf8Encode(string) \o <<0>>
    IN  raw \o Zeros((4 - (Len(raw) % 4)) % 4)

\* SarcHeader: magic, header size, byte-order mark, file_size, data_offset,
\* 0x0100, two bytes of padding
SarcHeaderBytes(order, file_size, data_offset) ==
    Ascii("SARC") \o U16Bytes(order, SARC_HEADER_SIZE) \o U16Bytes(order, BOM)
    \o U32Bytes(order, file_size) \o U32Bytes(order, data_offset)
    \o U16Bytes(order, 256) \o Zeros(2)

\* the second field of a table record: (offset / 4) | 0x01000000, or 0
NameAttr(name_table_offset) ==
    IF name_table_offset = None THEN 0
    ELSE LET q == name_table_offset[1] \div 4
         IN  IF (q \div HAS_NAME) % 2 = 1 THEN q ELSE q + HAS_NAME

\* SfatEntry: name hash, name attribute, data start, data end
SfatEntryBytes(order, e) ==
    U32PairBytes(order, NameHash(e.name))
    \o U32Bytes(order, NameAttr(e.name_table_offset))
    \o U32Bytes(order, e.file_range[1]) \o U32Bytes(order, e.file_range[2])

\* Sfat: magic, header size, entry count, hash key, the records
SfatBytes(order, entries) ==
    Ascii("SFAT") \o U16Bytes(order, SFAT_HEADER_SIZE)
    \o U16Bytes(order, Len(entries) % W16) \o U32Bytes(order, HASH_KEY)
    \o Flatten([i \in 1..Len(entries) |-> SfatEntryBytes(order, entries[i])])

SfntHeaderBytes(order) ==
    Ascii("SFNT") \o U16Bytes(order, SFNT_HEADER_SIZE) \o U16Bytes(order, 0)

(***************************************************************************)
(* writer.rs: SarcFile::generate_string_section, generate_data_section,    *)
(* get_sfat_entries, write.                                                *)
(***************************************************************************)
\* the present names, sorted by hash, written one after the other; each
\* name's hash is mapped to the offset its text starts at
RECURSIVE StringSectionOf(_)
StringSectionOf(names) ==
    IF names = <<>> THEN [offsets |-> <<>>, bytes |-> <<>>]
    ELSE LET n    == Len(names)
             prev == StringSectionOf(SubSeq(names, 1, n - 1))
             off  == Len(prev.bytes)
         IN  [offsets |-> Append(prev.offsets, [key |-> names[n].key, val |-> off]),
              bytes   |-> prev.bytes \o SarcStringBytes(names[n].string)]

generate_string_section(fs) ==
    LET named == SelectSeq(fs, LAMBDA f : f.name # None)
        names == [i \in 1..Len(named) |->
                     [key |-> sfat_hash(named[i].name[1]), string |-> named[i].name[1]]]
    IN  StringSectionOf(sort_by_key(names))

\* the payloads, sorted by hash, each started on a multiple of 0x2000; each
\* hash is mapped to the (start, end) of the payload written for it
RECURSIVE DataSectionOf(_)
DataSectionOf(sorted) ==
    IF sorted = <<>> THEN [offsets |-> <<>>, bytes |-> <<>>]
    ELSE LET n             == Len(sorted)
             prev          == DataSectionOf(SubSeq(sorted, 1, n - 1))
             start_padding == Len(prev.bytes)
             start         == AlignUp(start_padding)
             padding       == start - start_padding
             data          == prev.bytes \o Zeros(padding) \o sorted[n].file
             end           == Len(data)
         IN  [offsets |-> Append(prev.offsets,
                                 [key |-> sorted[n].key, val |-> <<start, end>>]),
              bytes   |-> data]

\* generate_data_section without the sort: payloads laid out in sequence order
generate_data_section_unsorted(fs) ==
    DataSectionOf([i \in 1..Len(fs) |->
                      [key |-> NameHash(fs[i].name), file |-> fs[i].data]])

\* generate_data_section recording offsets from the start of a file whose data
\* section starts at 0x2000
generate_data_section_absolute(fs) ==
    LET hashed == [i \in 1..Len(fs) |->
                      [key |-> NameHash(fs[i].name), file |-> fs[i].data]]
        section == DataSectionOf(sort_by_key(hashed))
    IN  [offsets |-> [i \in 1..Len(section.offsets) |->
                         [key |-> section.offsets[i].key,
                          val |-> <<section.offsets[i].val[1] + ALIGN,
                                    section.offsets[i].val[2] + ALIGN>>]],
         bytes |-> section.bytes]

generate_data_section(fs) ==
    LET hashed == [i \in 1..Len(fs) |->
                      [key |-> NameHash(fs[i].name), file |-> fs[i].data]]
    IN  DataSectionOf(sort_by_key(hashed))

\* one record per file, looked up by hash in the two maps, sorted by hash
get_sfat_entries(fs, string_offsets, data_offsets) ==
    LET entry(file) ==
            [key  |-> NameHash(file.name),
             name |-> file.name,
             name_table_offset |->
                 IF file.name = None THEN None
                 ELSE MapGet(string_offsets, sfat_hash(file.name[1])),
             file_range |-> MapGet(data_offsets, NameHash(file.name))[1]]
    IN  sort_by_key([i \in 1..Len(fs) |-> entry(fs[i])])

\* the offset of the data section: the end of the name table, aligned up
DataOffsetOf(num_files, string_len) ==
    AlignUp(SARC_HEADER_SIZE + SFAT_HEADER_SIZE + (num_files * SFAT_ENTRY_SIZE)
            + SFNT_HEADER_SIZE + string_len)

\* the bytes SarcFile::write sends to the sink
WriteBytes(order, fs) ==
    LET strings == generate_string_section(fs)
        datas   == generate_data_section(fs)
        num_files == Len(fs)
        data_padding_offset ==
            SARC_HEADER_SIZE + SFAT_HEADER_SIZE + (num_files * SFAT_ENTRY_SIZE)
            + SFNT_HEADER_SIZE + Len(strings.bytes)
        data_offset  == DataOffsetOf(num_files, Len(strings.bytes))
        data_padding == data_offset - data_padding_offset
        file_size    == data_offset + Len(datas.bytes)
    IN  SarcHeaderBytes(order, file_size, data_offset)
        \o SfatBytes(order, get_sfat_entries(fs, strings.offsets, datas.offsets))
        \o SfntHeaderBytes(order)
        \o strings.bytes
        \o Zeros(data_padding)
        \o datas.bytes

\* write panics in a build with overflow checks when a name's hash overflows
WritePanics(fs) ==
    \E i \in 1..Len(fs) : fs[i].name # None /\ sfat_hash_overflows(fs[i].name[1])


(***************************************************************************)
(* parser.rs: nom's number readers.  `at` counts bytes from the start of   *)
(* the buffer; the caller has checked that the bytes are there.            *)
(***************************************************************************)
be_u16(data, at) == data[at + 1] * 256 + data[at + 2]

take_u16(order, data, at) ==
    IF order = "Big" THEN be_u16(data, at)
    ELSE data[at + 2] * 256 + data[at + 1]

take_u32(order, data, at) ==
    IF order = "Big" THEN <<be_u16(data, at), be_u16(data, at + 2)>>
    ELSE <<take_u16("Little", data, at + 2), take_u16("Little", data, at)>>

\* tag(magic) at `at`
TagMatches(data, at, magic) ==
    Len(data) >= at + 4 /\ SubSeq(data, at + 1, at + 4) = magic

Outcome(tag, order, fs) == [tag |-> tag, byte_order |-> order, files |-> fs]

ParseError == Outcome("Err", "Big", <<>>)

Panic == Outcome("Panic", "Big", <<>>)

Archive(order, fs) == Outcome("Ok", order, fs)

ZSTD_MAGIC == <<40, 181, 47, 253>>

(***************************************************************************)
(* parser.rs: impl From<u16> for Endian.  None stands for panic!().        *)
(***************************************************************************)
EndianFrom(val) ==
    IF val = 65279 THEN Some("Big")
    ELSE IF val = 65534 THEN Some("Little")
    ELSE None

(***************************************************************************)
(* parser.rs: get_string.  `base` is where the slice starts in `data`, the *)
(* slice runs to the end of `data`.                                        *)
(***************************************************************************)
\* get_string taking the end of the slice for a terminator
get_string_to_end(data, base, offset) ==
    LET len  == Len(data) - base
        zero == {i \in offset..(len - 1) : data[base + i + 1] = 0} \cup {len}
        i    == CHOOSE z \in zero : \A y \in zero : z <= y
    IN  IF offset > len THEN None
        ELSE Utf8Decode(SubSeq(data, base + offset + 1, base + i))

get_string(data, base, offset) ==
    LET len  == Len(data) - base
        zero == {i \in offset..(len - 1) : data[base + i + 1] = 0}
    IN  IF zero = {} THEN None
        ELSE LET i == CHOOSE z \in zero : \A y \in zero : z <= y
             IN  Utf8Decode(SubSeq(data, base + offset + 1, base + i))

(***************************************************************************)
(* parser.rs: parse_sfat's record reader.  A node is name_offset (an       *)
(* Option<u16>) and file_range (two u32).                                  *)
(***************************************************************************)
SfatNodeAt(order, data, at) ==
    LET file_attrs == take_u32(order, data, at + 4)
    IN  [name_offset |->
             IF (file_attrs[1] \div 256) % 2 = 1 THEN Some(file_attrs[2]) ELSE None,
         file_start |-> take_u32(order, data, at + 8),
         file_end   |-> take_u32(order, data, at + 12)]

\* &file_data[file_range] panics when the range is reversed or runs past the end
RangePanics(node, file_len) ==
    U32Lt(node.file_end, node.file_start) \/ U32Lt(ToU32(file_len), node.file_end)

(***************************************************************************)
(* parser.rs: SarcFile::parse, from SarcHeader::parse to the entries.      *)
(***************************************************************************)
\* the entries, once header, table and both slices are known to be in range
ParseFiles(order, data, data_offset, nodes, string_at) ==
    IF \E i \in 1..Len(nodes) : RangePanics(nodes[i], Len(data) - data_offset)
    THEN Panic
    ELSE Archive(order,
           [i \in 1..Len(nodes) |->
              [name |-> IF nodes[i].name_offset = None THEN None
                        ELSE get_string(data, string_at, nodes[i].name_offset[1] * 4),
               data |-> SubSeq(data, data_offset + U32Val(nodes[i].file_start) + 1,
                               data_offset + U32Val(nodes[i].file_end))]])

\* parse_sfat and what follows it; at_sfat is where the header ended
ParseTable(order, data, data_offset, at_sfat) ==
    IF ~TagMatches(data, at_sfat, Ascii("SFAT")) \/ Len(data) < at_sfat + 12
    THEN ParseError
    ELSE LET node_count == take_u16(order, data, at_sfat + 6)
             at_nodes   == at_sfat + 12
             at_end     == at_nodes + (node_count * 16)
         IN  IF Len(data) < at_end THEN ParseError
             ELSE IF Len(data) < at_end + 8 THEN Panic
             ELSE ParseFiles(order, data, data_offset,
                             [i \in 1..node_count |->
                                 SfatNodeAt(order, data, at_nodes + ((i - 1) * 16))],
                             at_end + 8)

\* SarcHeader::parse and parse_endian, then the data slice
Parse(data) ==
    IF ~TagMatches(data, 0, Ascii("SARC")) \/ Len(data) < 8 THEN ParseError
    ELSE LET endian == EndianFrom(be_u16(data, 6))
         IN  IF endian = None THEN Panic
             ELSE IF Len(data) < 20 THEN ParseError
             ELSE LET data_offset == take_u32(endian[1], data, 12)
                  IN  IF U32Lt(ToU32(Len(data)), data_offset) THEN Panic
                      ELSE ParseTable(endian[1], data, U32Val(data_offset), 20)

(***************************************************************************)
(* parser.rs: SarcFile::read, built without the yaz0_sarc and zstd_sarc    *)
(* features.                                                               *)
(***************************************************************************)
Read(data) ==
    IF Len(data) < 4 THEN ParseError
    ELSE IF SubSeq(data, 1, 4) = Ascii("Yaz0") THEN ParseError
    ELSE IF SubSeq(data, 1, 4) = ZSTD_MAGIC THEN ParseError
    ELSE Parse(data)


(***************************************************************************)
(* The inputs the model draws from.                                        *)
(***************************************************************************)
Orders == {"Big", "Little"}

\* no name; the empty name (hash 0, like no name); "bd" and "a\u{c9}", which
\* share the hash 9998; "\u{66ca9}_E", whose last `+` leaves the u32 range
EntryNames ==
    {None, Some(<<>>), Some(<<98, 100>>), Some(<<97, 201>>), Some(<<421033, 95, 69>>)}

EntryData == {<<>>, <<7, 8>>}

Entry(name, data) == [name |-> name, data |-> data]

NoResult == Outcome("None", "Big", <<>>)

NoHash == [tag |-> "None", hash |-> <<0, 0>>]

(***************************************************************************)
(* The archive under construction, written to a buffer and read back.      *)
(***************************************************************************)
Init ==
    /\ byte_order \in Orders
    /\ files = <<>>
    /\ buf = <<>>
    /\ wstatus = "idle"
    /\ result = NoResult
    /\ hash_in = <<>>
    /\ hash_out = NoHash

\* sarc.files.push(SarcEntry { name, data })
Push(name, data) ==
    /\ wstatus = "idle"
    /\ Len(files) < MaxFiles
    /\ files' = Append(files, Entry(name, data))
    /\ UNCHANGED <<byte_order, buf, wstatus, result, hash_in, hash_out>>

\* sarc.write(&mut buf) returning Ok
WriteOk ==
    /\ wstatus = "idle"
    /\ buf' = WriteBytes(byte_order, files)
    /\ wstatus' = "written"
    /\ UNCHANGED <<byte_order, files, result, hash_in, hash_out>>

\* sarc.write(&mut buf) panicking in sfat_hash, before a byte is written
WritePanic ==
    /\ wstatus = "idle"
    /\ WritePanics(files)
    /\ wstatus' = "panicked"
    /\ UNCHANGED <<byte_order, files, buf, result, hash_in, hash_out>>

\* SarcFile::read(&buf) on the bytes just written
ReadBack ==
    /\ wstatus = "written"
    /\ result' = Read(buf)
    /\ wstatus' = "read"
    /\ UNCHANGED <<byte_order, files, buf, hash_in, hash_out>>

Next ==
    \/ \E name \in EntryNames, data \in EntryData : Push(name, data)
    \/ WriteOk
    \/ WritePanic
    \/ ReadBack

Spec == Init /\ [][Next]_vars


(***************************************************************************)
(* Reading the written buffer back field by field, for the properties.     *)
(***************************************************************************)
Written == wstatus \in {"written", "read"}

NumFiles == Len(files)

\* the permutations of the entry indices
IndexPerms == {p \in [1..NumFiles -> 1..NumFiles] : \A i, j \in 1..NumFiles : p[i] = p[j] => i = j}

HashOf(i) == NameHash(files[i].name)

\* the permutations that put the entries in non-decreasing hash order and keep
\* entries of equal hash in their original order
HashOrdered(p) ==
    \A j, k \in 1..NumFiles :
        j < k => /\ U32Leq(HashOf(p[j]), HashOf(p[k]))
                 /\ (HashOf(p[j]) = HashOf(p[k]) => p[j] < p[k])

\* the entry whose record is the j-th of the table
TableEntry(j) == files[(CHOOSE p \in IndexPerms : HashOrdered(p))[j]]

RecordAt(j) == 32 + ((j - 1) * 16)

RecHash(j) == take_u32(byte_order, buf, RecordAt(j))

RecAttr(j) == take_u32(byte_order, buf, RecordAt(j) + 4)

RecStart(j) == U32Val(take_u32(byte_order, buf, RecordAt(j) + 8))

RecEnd(j) == U32Val(take_u32(byte_order, buf, RecordAt(j) + 12))

RecHasName(j) == (RecAttr(j)[1] \div 256) % 2 = 1

BufDataOffset == U32Val(take_u32(byte_order, buf, 12))

\* the length of the name table: each present name, its terminator, padded to 4
RECURSIVE NameTableLen(_)
NameTableLen(fs) ==
    IF fs = <<>> THEN 0
    ELSE NameTableLen(Tail(fs))
         + (IF Head(fs).name = None THEN 0
            ELSE 4 * ((Len(Utf8Encode(Head(fs).name[1])) + 4) \div 4))

NameTableEnd == 20 + 12 + (16 * NumFiles) + 8 + NameTableLen(files)

AllZero(b, from, to) == \A q \in (from + 1)..to : b[q] = 0

\* `section` from `pos` on is, for each payload in turn, zero bytes up to the
\* next multiple of 8192 and then the payload, and nothing more
RECURSIVE LayoutOk(_, _, _, _)
LayoutOk(b, base, pos, payloads) ==
    IF payloads = <<>> THEN base + pos = Len(b)
    ELSE LET start == CHOOSE m \in pos..(pos + 8191) : m % 8192 = 0
             stop  == start + Len(Head(payloads))
         IN  /\ base + stop <= Len(b)
             /\ AllZero(b, base + pos, base + start)
             /\ SubSeq(b, base + start + 1, base + stop) = Head(payloads)
             /\ (base + start) % 8192 = 0
             /\ LayoutOk(b, base, stop, Tail(payloads))

\* how many times an entry occurs in a sequence of entries
Count(fs, e) == Cardinality({i \in 1..Len(fs) : fs[i] = e})

SameEntries(fs, gs) ==
    /\ Len(fs) = Len(gs)
    /\ \A i \in 1..Len(fs) : Count(fs, fs[i]) = Count(gs, fs[i])

\* the last entry, in sequence order, filed under hash h
LastWithHash(h) ==
    files[CHOOSE i \in 1..NumFiles :
            HashOf(i) = h /\ \A j \in 1..NumFiles : HashOf(j) = h => j <= i]

SharedHash == \E i, j \in 1..NumFiles : i # j /\ HashOf(i) = HashOf(j)

(***************************************************************************)
(* C1.  Round trip: read(write(A)) succeeds and yields A's byte order and  *)
(* A's multiset of (name, data) entries, whatever the entries of A.        *)
(***************************************************************************)
C1_RoundTrip ==
    wstatus = "read" =>
        /\ result.tag = "Ok"
        /\ result.byte_order = byte_order
        /\ SameEntries(result.files, files)

(***************************************************************************)
(* C4.  The file table written holds one 16-byte record per entry, in      *)
(* non-decreasing name-hash order (no name counting as hash 0), entries of *)
(* equal hash in their original sequence order.                            *)
(***************************************************************************)
C4_TableOrdering ==
    Written =>
        /\ take_u16(byte_order, buf, 26) = NumFiles
        /\ SubSeq(buf, RecordAt(NumFiles + 1) + 1, RecordAt(NumFiles + 1) + 4) = Ascii("SFNT")
        /\ \A j \in 1..(NumFiles - 1) : U32Leq(RecHash(j), RecHash(j + 1))
        /\ \E p \in IndexPerms :
              /\ HashOrdered(p)
              /\ \A j \in 1..NumFiles :
                    /\ RecHash(j) = HashOf(p[j])
                    /\ RecHasName(j) <=> (files[p[j]].name # None)

C4_Witness ==
    /\ Written
    /\ NumFiles = 2
    /\ \E i, j \in 1..NumFiles : i < j /\ U32Lt(HashOf(j), HashOf(i))
    /\ RecHash(1) # RecHash(2)

(***************************************************************************)
(* C5.  In the archive written, every record's data_start is a multiple of *)
(* 8192, data_offset is the smallest multiple of 8192 not below the end of *)
(* the name table, every payload starts on a multiple of 8192 of the file, *)
(* and the padding is zero bytes.                                          *)
(***************************************************************************)
C5_Alignment ==
    Written =>
        /\ \A j \in 1..NumFiles : RecStart(j) % 8192 = 0
        /\ BufDataOffset % 8192 = 0
        /\ BufDataOffset >= NameTableEnd
        /\ BufDataOffset - NameTableEnd < 8192
        /\ AllZero(buf, NameTableEnd, BufDataOffset)
        /\ \E p \in IndexPerms :
              /\ HashOrdered(p)
              /\ LayoutOk(buf, BufDataOffset, 0, [j \in 1..NumFiles |-> files[p[j]].data])

C5_Witness ==
    /\ Written
    /\ NumFiles = 2
    /\ files[1].data # <<>> /\ files[2].data # <<>>
    /\ files[1].name # None
    /\ \E j \in 1..NumFiles : RecStart(j) = 8192

(***************************************************************************)
(* C6.  As claimed: archives whose entry sequences are permutations of one *)
(* another are written to the same bytes.                                  *)
(***************************************************************************)
C6_AnyOrderSameBytes ==
    wstatus = "written" =>
        \A p \in IndexPerms :
            WriteBytes(byte_order, [j \in 1..NumFiles |-> files[p[j]]]) = buf

(***************************************************************************)
(* C6, amended.  Archives whose entry sequences are permutations of one    *)
(* another that keep entries of equal hash in the same relative order are  *)
(* written to the same bytes.                                              *)
(***************************************************************************)
C6_SameTieOrderSameBytes ==
    wstatus = "written" =>
        \A p \in IndexPerms :
            (\A j, k \in 1..NumFiles :
                (j < k /\ HashOf(p[j]) = HashOf(p[k])) => p[j] < p[k])
            => WriteBytes(byte_order, [j \in 1..NumFiles |-> files[p[j]]]) = buf

C6_Witness ==
    /\ wstatus = "written"
    /\ NumFiles = 2
    /\ U32Lt(HashOf(2), HashOf(1))
    /\ files[1].data # files[2].data

(***************************************************************************)
(* C8.  As claimed: a record's data_start and data_end are offsets from    *)
(* the start of the file, the file's bytes between them are the payload of *)
(* the record's entry.                                                     *)
(***************************************************************************)
C8_RangesAbsolute ==
    Written =>
        \A j \in 1..NumFiles :
            /\ RecStart(j) <= RecEnd(j)
            /\ RecEnd(j) <= Len(buf)
            /\ SubSeq(buf, RecStart(j) + 1, RecEnd(j)) = TableEntry(j).data

(***************************************************************************)
(* C8, amended.  A record's data_start and data_end are offsets from the   *)
(* start of the data section (the header's data_offset): the file's bytes  *)
(* from data_offset + data_start to data_offset + data_end are the payload *)
(* of the last entry, in sequence order, that has the record's hash.       *)
(***************************************************************************)
C8_RangesFromDataOffset ==
    Written =>
        \A j \in 1..NumFiles :
            /\ RecStart(j) <= RecEnd(j)
            /\ BufDataOffset + RecEnd(j) <= Len(buf)
            /\ SubSeq(buf, BufDataOffset + RecStart(j) + 1, BufDataOffset + RecEnd(j))
                   = LastWithHash(RecHash(j)).data

C8_Witness ==
    /\ Written
    /\ NumFiles = 2
    /\ ~SharedHash
    /\ files[1].data # <<>> /\ files[2].data # <<>>
    /\ \E j \in 1..NumFiles : RecStart(j) > 0 /\ RecEnd(j) > RecStart(j)

(***************************************************************************)
(* C10.  Every entry's record carries the range of that entry's own        *)
(* payload in the data section, also when entries share a hash, and        *)
(* entries with different payloads never get the same range.               *)
(***************************************************************************)
C10_RangePerEntry ==
    Written =>
        /\ \A j \in 1..NumFiles :
              /\ RecStart(j) <= RecEnd(j)
              /\ BufDataOffset + RecEnd(j) <= Len(buf)
              /\ SubSeq(buf, BufDataOffset + RecStart(j) + 1, BufDataOffset + RecEnd(j))
                     = TableEntry(j).data
        /\ \A j, k \in 1..NumFiles :
              TableEntry(j).data # TableEntry(k).data
              => <<RecStart(j), RecEnd(j)>> # <<RecStart(k), RecEnd(k)>>


(***************************************************************************)
(* The reader on buffers it did not write: a buffer laid out like an       *)
(* archive, without alignment, from the records, name bytes and data bytes *)
(* chosen; then cut short or with one byte changed.                        *)
(***************************************************************************)
Node(attr, start, end) == [attr |-> attr, start |-> start, end |-> end]

\* no name, empty range; names at words 0, 1, 2; a reversed range; a range
\* past the data
NodeChoices ==
    {Node(0, 0, 0), Node(HAS_NAME, 0, 2), Node(HAS_NAME + 1, 1, 3),
     Node(HAS_NAME + 2, 0, 0), Node(0, 2, 1), Node(HAS_NAME, 1, 5)}

NodeSeqs == UNION {[1..n -> NodeChoices] : n \in 0..MaxNodes}

\* "a" and "bd"; a byte that is not UTF-8, then "bd"; "abcd" without terminator
NameBytesChoices ==
    {<<97, 0, 0, 0, 98, 100, 0, 0>>, <<255, 0, 0, 0, 98, 100, 0, 0>>, <<97, 98, 99, 100>>}

DataBytesChoices == {<<>>, <<7, 8, 9>>, <<7, 0, 9>>}

InputBytes(order, nodes, names, data) ==
    LET data_offset == SARC_HEADER_SIZE + SFAT_HEADER_SIZE
                       + (Len(nodes) * SFAT_ENTRY_SIZE) + SFNT_HEADER_SIZE + Len(names)
    IN  SarcHeaderBytes(order, data_offset + Len(data), data_offset)
        \o Ascii("SFAT") \o U16Bytes(order, SFAT_HEADER_SIZE)
        \o U16Bytes(order, Len(nodes)) \o U32Bytes(order, HASH_KEY)
        \o Flatten([i \in 1..Len(nodes) |->
                      U32Bytes(order, 0) \o U32Bytes(order, nodes[i].attr)
                      \o U32Bytes(order, nodes[i].start) \o U32Bytes(order, nodes[i].end)])
        \o SfntHeaderBytes(order)
        \o names
        \o data

\* lengths to cut a buffer to: inside the magic, the header, the table header,
\* the table, the name table header
CutChoices == {3, 7, 19, 30, 36, 52}

\* bytes to change: the magic (1), the byte-order mark (7, 8), data_offset (13, 16),
\* the magic of the file table (21)
PokeChoices ==
    {<<1, 0>>, <<7, 0>>, <<7, 255>>, <<8, 254>>, <<8, 255>>,
     <<13, 0>>, <<13, 255>>, <<16, 0>>, <<16, 255>>, <<21, 0>>}

Supply(nodes, names, data) ==
    /\ wstatus = "idle"
    /\ buf' = InputBytes(byte_order, nodes, names, data)
    /\ wstatus' = "supplied"
    /\ UNCHANGED <<byte_order, files, result, hash_in, hash_out>>

\* a buffer that starts with the magic of a compressed stream
SupplyCompressed(magic) ==
    /\ wstatus = "idle"
    /\ buf' = magic \o <<0, 0, 0, 0>>
    /\ wstatus' = "supplied"
    /\ UNCHANGED <<byte_order, files, result, hash_in, hash_out>>

Truncate(n) ==
    /\ wstatus = "supplied"
    /\ n < Len(buf)
    /\ buf' = SubSeq(buf, 1, n)
    /\ wstatus' = "damaged"
    /\ UNCHANGED <<byte_order, files, result, hash_in, hash_out>>

Poke(at, v) ==
    /\ wstatus = "supplied"
    /\ at <= Len(buf)
    /\ buf[at] # v
    /\ buf' = [buf EXCEPT ![at] = v]
    /\ wstatus' = "damaged"
    /\ UNCHANGED <<byte_order, files, result, hash_in, hash_out>>

\* SarcFile::read(&buf)
ReadInput ==
    /\ wstatus \in {"supplied", "damaged"}
    /\ result' = Read(buf)
    /\ wstatus' = "parsed"
    /\ UNCHANGED <<byte_order, files, buf, hash_in, hash_out>>

NextRead ==
    \/ \E nodes \in NodeSeqs, names \in NameBytesChoices, data \in DataBytesChoices :
          Supply(nodes, names, data)
    \/ \E magic \in {Ascii("Yaz0"), ZSTD_MAGIC} : SupplyCompressed(magic)
    \/ \E n \in CutChoices : Truncate(n)
    \/ \E c \in PokeChoices : Poke(c[1], c[2])
    \/ ReadInput

SpecRead == Init /\ [][NextRead]_vars

(***************************************************************************)
(* The structure of an input buffer, read field by field.                  *)
(***************************************************************************)
InMark == be_u16(buf, 6)

InOrder == IF InMark = 65279 THEN "Big" ELSE "Little"

InHeaderOk ==
    /\ Len(buf) >= 20
    /\ SubSeq(buf, 1, 4) = Ascii("SARC")
    /\ InMark \in {65279, 65534}

InDataOffset == take_u32(InOrder, buf, 12)

InCount == take_u16(InOrder, buf, 26)

InNamesAt == 32 + (16 * InCount) + 8

InAttr(j) == take_u32(InOrder, buf, RecordAt(j) + 4)

InStart(j) == take_u32(InOrder, buf, RecordAt(j) + 8)

InEnd(j) == take_u32(InOrder, buf, RecordAt(j) + 12)

InFlagged(j) == (InAttr(j)[1] \div 256) % 2 = 1

\* where the name of record j starts in the buffer
InNameAt(j) == InNamesAt + (4 * InAttr(j)[2])

\* header, table and data ranges are all inside the buffer
StructureOk ==
    /\ InHeaderOk
    /\ U32Leq(InDataOffset, ToU32(Len(buf)))
    /\ Len(buf) >= 32
    /\ SubSeq(buf, 21, 24) = Ascii("SFAT")
    /\ Len(buf) >= InNamesAt
    /\ \A j \in 1..InCount :
          /\ U32Leq(InStart(j), InEnd(j))
          /\ U32Leq(InEnd(j), ToU32(Len(buf) - U32Val(InDataOffset)))

\* the zero bytes at or after the start of the name of record j
InZeros(j) == {q \in (InNameAt(j) + 1)..Len(buf) : buf[q] = 0}

InNameBytes(j) ==
    SubSeq(buf, InNameAt(j) + 1, (CHOOSE q \in InZeros(j) : \A r \in InZeros(j) : q <= r) - 1)

NameOffsetPastEnd(j) == InNameAt(j) >= Len(buf)

NameUnterminated(j) == InNameAt(j) < Len(buf) /\ InZeros(j) = {}

NameNotUtf8(j) == InZeros(j) # {} /\ Utf8Decode(InNameBytes(j)) = None

NameUnreadable(j) == NameOffsetPastEnd(j) \/ NameUnterminated(j) \/ NameNotUtf8(j)

InData(j) ==
    SubSeq(buf, U32Val(InDataOffset) + U32Val(InStart(j)) + 1,
           U32Val(InDataOffset) + U32Val(InEnd(j)))

(***************************************************************************)
(* C2.  read never panics: on every buffer it returns an archive with all  *)
(* the table's entries, or an error.                                       *)
(***************************************************************************)
C2_ReadTotal ==
    wstatus = "parsed" =>
        /\ result.tag \in {"Ok", "Err"}
        /\ result.tag = "Ok" => Len(result.files) = InCount

(***************************************************************************)
(* C3.  The mark 0xFEFF selects Big, 0xFFFE selects Little, and every      *)
(* other mark makes read return an error.                                  *)
(***************************************************************************)
C3_ByteOrderMark ==
    (wstatus = "parsed" /\ Len(buf) >= 8 /\ SubSeq(buf, 1, 4) = Ascii("SARC")) =>
        /\ (InMark = 65279 /\ result.tag = "Ok") => result.byte_order = "Big"
        /\ (InMark = 65534 /\ result.tag = "Ok") => result.byte_order = "Little"
        /\ InMark \notin {65279, 65534} => result.tag = "Err"

(***************************************************************************)
(* C9.  A record flagged as named whose name bytes are not UTF-8, have no  *)
(* terminating zero before the end of the buffer, or start at or past the  *)
(* end of the buffer, does not fail the read: that entry has no name and   *)
(* its data, every other entry has its name and its data.                  *)
(***************************************************************************)
C9_NameFailureLocal ==
    (wstatus = "parsed" /\ StructureOk) =>
        /\ result.tag = "Ok"
        /\ result.byte_order = InOrder
        /\ Len(result.files) = InCount
        /\ \A j \in 1..InCount :
              /\ result.files[j].data = InData(j)
              /\ (~InFlagged(j) \/ NameUnreadable(j)) => result.files[j].name = None
              /\ (InFlagged(j) /\ ~NameUnreadable(j)) =>
                    /\ result.files[j].name # None
                    /\ Utf8Encode(result.files[j].name[1]) = InNameBytes(j)

C9_Witness ==
    /\ wstatus = "parsed"
    /\ StructureOk
    /\ result.tag = "Ok"
    /\ InCount = 2
    /\ \E j, k \in 1..InCount :
          /\ InFlagged(j) /\ NameNotUtf8(j)
          /\ result.files[j].name = None /\ result.files[j].data # <<>>
          /\ result.files[k].name = Some(<<98, 100>>)


(***************************************************************************)
(* The hash on its own: sfat_hash called on short texts.                   *)
(***************************************************************************)
\* 'E', '_', 'a', U+00C9, U+66CA9, U+10FFFF
HashChars == {69, 95, 97, 201, 421033, 1114111}

HashTexts == UNION {[1..n -> HashChars] : n \in 0..MaxHashLen}

\* sfat_hash(string), in any build of the crate
HashCall(string) ==
    /\ hash_in' = string
    /\ hash_out' \in sfat_hash_outcomes(string)
    /\ UNCHANGED <<byte_order, files, buf, wstatus, result>>

NextHash == \E string \in HashTexts : HashCall(string)

SpecHash == Init /\ [][NextHash]_vars

(***************************************************************************)
(* C7.  sfat_hash is total: for every text it returns the fold             *)
(* acc = (acc * 101 + code point) mod 2^32 from 0, never aborting; the     *)
(* empty text hashes to 0.                                                 *)
(***************************************************************************)
C7_HashTotalWraps ==
    hash_out.tag # "None" =>
        /\ hash_out.tag = "Ok"
        /\ hash_out.hash = HashFold(<<0, 0>>, hash_in)
        /\ hash_in = <<>> => hash_out.hash = <<0, 0>>


=============================================================================
